---- MODULE Spec2Model ----
(***************************************************************************)
(* Route planning of urban-health-watch: the RoutePlanner page             *)
(* (src/src/pages/RoutePlanner.tsx) and the useRouteCalculation hook       *)
(* (src/src/hooks/useRouteCalculation.ts).                                 *)
(* The page imports the hook from useRouteCalculation.ts; the second copy  *)
(* of the hook in src/src/hooks/usePermissions.tsx (lines 118-309) differs  *)
(* from it in fetchAQIData only, which there clamps its result to 0..500.   *)
(*                                                                         *)
(* Numbers.  JavaScript numbers are modelled by integers in fixed units:   *)
(*   - a latitude or longitude is an integer count of half degrees; the    *)
(*     geocoder's places have even counts, so the midpoint of two places   *)
(*     is exact;                                                           *)
(*   - a pollution index is an integer count of hundredths                 *)
(*     (75 is 7500, pm25 * 4.17 is pm25 * 417);                            *)
(*   - a mean is the pair [num, den] of the sum of the samples and their   *)
(*     number, compared by cross multiplication; den = 0 is the NaN that   *)
(*     0 / 0 gives;                                                        *)
(*   - a distance is in metres, rounded down to 100 m.                     *)
(* An optional value (T | null) is <<>> for null and <<v>> for v.          *)
(***************************************************************************)
EXTENDS Integers, Sequences, FiniteSets, TLC

\* Longest path (in points) of a successful routing response under Spec.
MaxPathLen == 2
\* Longest path (in points) handed to the evaluator under SpecEval.
MaxEvalLen == 30
\* The number of calculateRoutes invocations of SpecOverlap.
MaxCalls == 2

None == <<>>
Some(x) == <<x>>
Val(o) == o[1]

\* Place names the user can type; "" is the empty input.
Names == {"", "Bangalore, India"}

\* Coordinates the geocoding service can answer with (half degrees).
Places == {[lat |-> 26, lon |-> 156], [lat |-> 24, lon |-> 154]}

\* const routeProfiles = ['driving-car', 'cycling-regular'];
routeProfiles == <<"driving-car", "cycling-regular">>

EndpointError == "Could not find one or both locations"
NoRoutesError == "No routes found"

(***************************************************************************)
(* Responses of the three external services.                               *)
(***************************************************************************)
\* Nominatim: a first result, an empty result list, a rejected fetch, or a
\* body that response.json() cannot parse.
GeocodeResponses ==
    {[kind |-> "found", place |-> p] : p \in Places}
    \cup {[kind |-> k, place |-> [lat |-> 0, lon |-> 0]] :
            k \in {"zeroResults", "networkError", "malformed"}}

\* OpenRouteService: a feature with a path of len points, a non-ok status or
\* rejected fetch, a payload whose feature lacks geometry or segments, or a
\* payload without features.
RouteResponses ==
    {[kind |-> "ok", len |-> n] : n \in 0..MaxPathLen}
    \cup {[kind |-> k, len |-> 0] : k \in {"httpError", "malformed", "noFeatures"}}

\* pm25 readings (ug/m3) the measurement service can report: a faulty
\* sensor's negative reading and a heavily polluted one.
PM25Values == {-1, 120}
\* Math.random() * 100, in hundredths (50 + 25 is the default 75).
RandomDraws == {2500}
\* OpenAQ: a pm25 measurement, a result without one (the code then draws a
\* random number), or a failed lookup.
SamplerResponses ==
    {[kind |-> "pm25", value |-> v] : v \in PM25Values}
    \cup {[kind |-> "noMeasurement", value |-> r] : r \in RandomDraws}
    \cup {[kind |-> "error", value |-> 0]}
\* The lookups of SpecEval all fail: the number of calls does not depend on
\* what a call returns.
EvalSamplerResponses == {[kind |-> "error", value |-> 0]}

(***************************************************************************)
(* geocodeLocation                                                         *)
(***************************************************************************)
\* Mutant: the catch block answers a default coordinate instead of null.
GeocodeLocationDefaulting(resp) ==
    IF resp.kind \in {"found", "networkError"} THEN Some(resp.place) ELSE None

GeocodeLocation(resp) ==
    IF resp.kind = "found" THEN Some(resp.place) ELSE None

(***************************************************************************)
(* fetchAQIData                                                            *)
(***************************************************************************)
FetchAQIData(resp) ==
    CASE resp.kind = "pm25" -> resp.value * 417
      [] resp.kind = "noMeasurement" -> 5000 + resp.value
      [] OTHER -> 7500

(***************************************************************************)
(* getRouteFromORS                                                         *)
(***************************************************************************)
RECURSIVE SqrtSearch(_, _, _)
SqrtSearch(n, lo, hi) ==
    IF lo = hi THEN lo
    ELSE LET mid == (lo + hi + 1) \div 2
         IN  IF mid * mid <= n THEN SqrtSearch(n, mid, hi)
             ELSE SqrtSearch(n, lo, mid - 1)
\* Math.sqrt, rounded down.
Sqrt(n) == SqrtSearch(n, 0, 46340)

\* Math.sqrt(dlat^2 + dlon^2) * 111000 with dlat, dlon in half degrees:
\* sqrt(sum) * 55500 metres, rounded down to 100 m.
FallbackDistance(s, e) ==
    Sqrt(((e.lat - s.lat) * (e.lat - s.lat) + (e.lon - s.lon) * (e.lon - s.lon))
         * 555 * 555) * 100

FallbackDuration == 3600

\* Mutant: the straight line without its midpoint.
FallbackCoordinatesNoMidpoint(s, e) ==
    << <<s.lat, s.lon>>, <<e.lat, e.lon>> >>

\* The straight line of the catch block: origin, midpoint, destination.
FallbackCoordinates(s, e) ==
    << <<s.lat, s.lon>>,
       <<(s.lat + e.lat) \div 2, (s.lon + e.lon) \div 2>>,
       <<e.lat, e.lon>> >>

FallbackRoute(s, e) ==
    [coordinates |-> FallbackCoordinates(s, e),
     distance |-> FallbackDistance(s, e),
     duration |-> FallbackDuration]

\* feature.geometry.coordinates of a successful response: n points, each a
\* longitude-first pair.
ServiceGeometry(n) == [k \in 1..n |-> <<300 + k, 20 + k>>]
\* feature.properties.segments[0] of a successful response, per profile.
ServiceDistance(p) == IF p = 1 THEN 145000 ELSE 139000
ServiceDuration(p) == IF p = 1 THEN 9000 ELSE 27000

\* Mutant: the pairs are passed on longitude-first, as the service sent them.
KeepAxes(geometry) == geometry

\* coordinates.map((coord) => [coord[1], coord[0]])
SwapAxes(geometry) == [k \in 1..Len(geometry) |-> <<geometry[k][2], geometry[k][1]>>]

\* Mutant: only a non-ok status throws; an unreadable payload falls through
\* to return null.
RouteFetchThrowsOnStatusOnly(resp) == resp.kind = "httpError"

\* Whether the adapter's try block throws on the response.
RouteFetchThrows(resp) == resp.kind \in {"httpError", "malformed"}

\* Mutant: the catch block returns null instead of the straight line.
GetRouteFromORSNoFallback(s, e, p, resp) ==
    IF resp.kind = "ok"
    THEN Some([coordinates |-> SwapAxes(ServiceGeometry(resp.len)),
               distance |-> ServiceDistance(p),
               duration |-> ServiceDuration(p)])
    ELSE None

\* The adapter's answer for profile p: the straight line when the try block
\* throws, the converted first feature, or null without a feature.
GetRouteFromORS(s, e, p, resp) ==
    IF RouteFetchThrows(resp) THEN Some(FallbackRoute(s, e))
    ELSE IF resp.kind = "ok"
         THEN Some([coordinates |-> SwapAxes(ServiceGeometry(resp.len)),
                    distance |-> ServiceDistance(p),
                    duration |-> ServiceDuration(p)])
         ELSE None

(***************************************************************************)
(* calculateAQIAlongRoute                                                  *)
(***************************************************************************)
Max(a, b) == IF a >= b THEN a ELSE b

\* The 10 of Math.floor(coordinates.length / 10).
SamplingCap == 10

\* Mutant: Math.ceil in place of Math.floor.
SampleIntervalCeil(len) == Max(1, (len + SamplingCap - 1) \div SamplingCap)

\* Mutant: no stride, every point is sampled.
SampleEveryPoint(len) == 1

\* const sampleInterval = Math.max(1, Math.floor(coordinates.length / 10));
SampleInterval(len) == Max(1, len \div SamplingCap)

\* The loop test i < coordinates.length.
LoopContinues(i, len) == i < len

\* The evaluator of one route up to its first await: the interval is fixed,
\* i = 0, and the first lookup is sent unless the path is empty.
\* calls counts the lookups sent, done says the function has returned.
StartEval(route) ==
    LET len == Len(route.coordinates)
    IN  [route |-> route,
         interval |-> SampleInterval(len),
         i |-> 0,
         aqiPoints |-> <<>>,
         calls |-> IF LoopContinues(0, len) THEN 1 ELSE 0,
         done |-> ~LoopContinues(0, len)]

\* Mutant: a failed lookup leaves no sample; the loop moves on without it.
AdvanceEvalSkipFailed(ev, resp) ==
    LET coord == ev.route.coordinates[ev.i + 1]
        next == ev.i + ev.interval
        more == LoopContinues(next, Len(ev.route.coordinates))
    IN  [ev EXCEPT
           !.aqiPoints = IF resp.kind = "error" THEN @
                         ELSE Append(@, [lat |-> coord[1], lon |-> coord[2],
                                         aqi |-> FetchAQIData(resp)]),
           !.i = next,
           !.calls = IF more THEN @ + 1 ELSE @,
           !.done = ~more]

\* Mutant: the sample is put in front of the earlier ones (unshift for push).
AdvanceEvalUnshift(ev, resp) ==
    LET coord == ev.route.coordinates[ev.i + 1]
        next == ev.i + ev.interval
        more == LoopContinues(next, Len(ev.route.coordinates))
    IN  [ev EXCEPT
           !.aqiPoints = <<[lat |-> coord[1], lon |-> coord[2],
                            aqi |-> FetchAQIData(resp)]>> \o @,
           !.i = next,
           !.calls = IF more THEN @ + 1 ELSE @,
           !.done = ~more]

\* One turn of the loop, resumed by the answer to the lookup in flight: the
\* sample is pushed, i advances by the interval, and the next lookup is sent
\* or the function returns.
AdvanceEval(ev, resp) ==
    LET coord == ev.route.coordinates[ev.i + 1]
        next == ev.i + ev.interval
        more == LoopContinues(next, Len(ev.route.coordinates))
    IN  [ev EXCEPT
           !.aqiPoints = Append(@, [lat |-> coord[1], lon |-> coord[2],
                                    aqi |-> FetchAQIData(resp)]),
           !.i = next,
           !.calls = IF more THEN @ + 1 ELSE @,
           !.done = ~more]

(***************************************************************************)
(* calculateRoutes: mean, identifiers, ranking                             *)
(***************************************************************************)
RECURSIVE SumAqiSkipLast(_)
\* Mutant: the sum stops one sample short.
SumAqiSkipLast(points) ==
    IF Len(points) <= 1 THEN 0
    ELSE SumAqiSkipLast(SubSeq(points, 1, Len(points) - 1))
         + points[Len(points) - 1].aqi

RECURSIVE SumAqi(_)
\* aqiPoints.reduce((sum, point) => sum + point.aqi, 0)
SumAqi(points) ==
    IF points = <<>> THEN 0
    ELSE SumAqi(SubSeq(points, 1, Len(points) - 1)) + points[Len(points)].aqi

\* sum / aqiPoints.length, as the pair of both; 0 / 0 is NaN.
AvgAqi(points) == [num |-> SumAqi(points), den |-> Len(points)]

IsNaN(m) == m.den = 0

\* a < b and a <= b on means; every comparison with NaN is false.
MeanLess(a, b) == ~IsNaN(a) /\ ~IsNaN(b) /\ a.num * b.den < b.num * a.den
MeanLeq(a, b) == ~IsNaN(a) /\ ~IsNaN(b) /\ a.num * b.den <= b.num * a.den
MeanEq(a, b) == ~IsNaN(a) /\ ~IsNaN(b) /\ a.num * b.den = b.num * a.den

\* `route-${index}`, index counted from 0 among the valid routes.
RouteId(index) == <<"route", index>>

\* The RouteData the map callback returns for valid route number k.
RouteDataOf(k, ev) ==
    [id |-> RouteId(k - 1),
     coordinates |-> ev.route.coordinates,
     distance |-> ev.route.distance,
     duration |-> ev.route.duration,
     avgAqi |-> AvgAqi(ev.aqiPoints),
     aqiPoints |-> ev.aqiPoints]

\* The comparator (a, b) => a.avgAqi - b.avgAqi as the sort reads it: its
\* sign, where a NaN result counts as +0.
CompareAqi(a, b) ==
    IF IsNaN(a.avgAqi) \/ IsNaN(b.avgAqi) THEN 0
    ELSE LET d == a.avgAqi.num * b.avgAqi.den - b.avgAqi.num * a.avgAqi.den
         IN  IF d < 0 THEN -1 ELSE IF d > 0 THEN 1 ELSE 0

\* Mutant: an unstable sort, which also moves x in front of an equal y.
MovesBeforeOrEqual(y, x) == CompareAqi(y, x) >= 0

\* Whether the sort moves x in front of y, which stood before it.
MovesBefore(y, x) == CompareAqi(y, x) > 0

RECURSIVE InsertSortedOverwriting(_, _)
\* Mutant: a move writes x over the element it passes instead of shifting
\* that element up.
InsertSortedOverwriting(sorted, x) ==
    IF sorted = <<>> THEN <<x>>
    ELSE LET last == sorted[Len(sorted)]
         IN  IF MovesBefore(last, x)
             THEN Append(InsertSortedOverwriting(SubSeq(sorted, 1, Len(sorted) - 1), x), x)
             ELSE Append(sorted, x)

RECURSIVE InsertSorted(_, _)
\* One insertion of the sort: x goes in front of every element it moves
\* before, behind the others.
InsertSorted(sorted, x) ==
    IF sorted = <<>> THEN <<x>>
    ELSE LET last == sorted[Len(sorted)]
         IN  IF MovesBefore(last, x)
             THEN Append(InsertSorted(SubSeq(sorted, 1, Len(sorted) - 1), x), last)
             ELSE Append(sorted, x)

RECURSIVE SortByAqi(_)
\* routesWithAQI.sort(...): Array.prototype.sort is a stable sort.
SortByAqi(rs) ==
    IF rs = <<>> THEN <<>>
    ELSE InsertSorted(SortByAqi(SubSeq(rs, 1, Len(rs) - 1)), rs[Len(rs)])

(***************************************************************************)
(* State.                                                                  *)
(*   startLocation, endLocation  the page's two inputs (useState)          *)
(*   lastClick      what the last run of handleFindRoutes did              *)
(*   routes, loading, error      the hook's state (useState)               *)
(*   pc             where the calculateRoutes call in flight is suspended  *)
(*   args           the arguments of that call                             *)
(*   start, end     its geocoded endpoints                                 *)
(*   geoResp        what the geocoder answered for each of them            *)
(*   routeResults   per profile, the promise of getRouteFromORS            *)
(*   evals          per valid route, the evaluator's locals                *)
(*   fetches        the fetch calls the call has sent, per service         *)
(*   calls          SpecOverlap only: the locals of every invocation of    *)
(*                  calculateRoutes, in the order of invocation            *)
(*   search         LocationSearch: its state, timers and search calls     *)
(*   form           FeedbackForm: the files it holds                       *)
(*   saved          Index: the saved locations and localStorage            *)
(*   nasa           fetch-nasa-data: the request being served              *)
(***************************************************************************)
VARIABLES startLocation, endLocation, lastClick, routes, loading, error,
          pc, args, start, end, geoResp, routeResults, evals, fetches, calls,
          search, form, saved, nasa

pageVars == <<startLocation, endLocation, lastClick>>
hookVars == <<routes, loading, error>>
callVars == <<pc, args, start, end, geoResp, routeResults, evals, fetches>>
\* The route planner's variables, and those of the other components.
plannerVars == <<startLocation, endLocation, lastClick, routes, loading, error,
                 pc, args, start, end, geoResp, routeResults, evals, fetches, calls>>
componentVars == <<search, form, saved, nasa>>
vars == <<startLocation, endLocation, lastClick, routes, loading, error,
          pc, args, start, end, geoResp, routeResults, evals, fetches, calls,
          search, form, saved, nasa>>

NoFetches == [geocode |-> 0, route |-> 0, aqi |-> 0]
Unsent == [status |-> "unsent", resp |-> "none", len |-> 0, value |-> None]
Pending == [status |-> "pending", resp |-> "none", len |-> 0, value |-> None]
NoGeoResp == [start |-> "none", end |-> "none"]

\* LocationSearch after its first render: nothing typed, no timer set.
InitialSearch ==
    [query |-> "", timers |-> <<>>, now |-> 0, keystrokes |-> 0,
     searched |-> <<>>, fetching |-> <<>>, isSearching |-> FALSE, results |-> ""]

\* FeedbackForm after its first render: no file held.
InitialForm ==
    [op |-> "none", selection |-> <<>>, tooLarge |-> 0, tooMany |-> FALSE,
     files |-> <<>>]

\* Index after its first render, before its effect has run: no location in
\* state, and nothing stored under 'smartwellbeing-locations'.
InitialSaved ==
    [mounted |-> FALSE, savedLocations |-> <<>>, storage |-> None,
     lastCall |-> [op |-> "none", id |-> "", before |-> <<>>]]

\* The fetch-nasa-data function before its first request, deployed without
\* NASA_API_KEY.
InitialNasa == [hasKey |-> FALSE, requests |-> <<>>]

\* Every component in its state after the first render.
ComponentsIdle ==
    /\ search = InitialSearch
    /\ form = InitialForm
    /\ saved = InitialSaved
    /\ nasa = InitialNasa

\* The route planner after its first render.
PlannerIdle ==
    /\ startLocation = ""
    /\ endLocation = ""
    /\ lastClick = "none"
    /\ routes = None
    /\ loading = FALSE
    /\ error = None
    /\ pc = "idle"
    /\ args = <<"", "">>
    /\ start = None
    /\ end = None
    /\ geoResp = NoGeoResp
    /\ routeResults = [p \in DOMAIN routeProfiles |-> Unsent]
    /\ evals = <<>>
    /\ fetches = NoFetches
    /\ calls = <<>>

Init ==
    /\ ComponentsIdle
    /\ PlannerIdle

\* onChange of the two inputs.
SetStartLocation ==
    /\ UNCHANGED componentVars
    /\ \E t \in Names \ {startLocation} : startLocation' = t
    /\ UNCHANGED <<endLocation, lastClick, hookVars, callVars, calls>>

SetEndLocation ==
    /\ UNCHANGED componentVars
    /\ \E t \in Names \ {endLocation} : endLocation' = t
    /\ UNCHANGED <<startLocation, lastClick, hookVars, callVars, calls>>

\* Mutant: only the destination text is tested.
OnlyDestinationPresent(s, e) == e # ""

\* if (startLocation && endLocation)
TextsPresent(s, e) == s # "" /\ e # ""

\* handleFindRoutes, and calculateRoutes up to its first await.  The button
\* is disabled while loading, so the handler runs only with no call in
\* flight; it tests the two texts itself.
HandleFindRoutes ==
    /\ UNCHANGED componentVars
    /\ pc = "idle"
    /\ IF TextsPresent(startLocation, endLocation)
       THEN /\ lastClick' = "started"
            /\ loading' = TRUE
            /\ error' = None
            /\ routes' = None
            /\ args' = <<startLocation, endLocation>>
            /\ start' = None
            /\ end' = None
            /\ geoResp' = NoGeoResp
            /\ routeResults' = [p \in DOMAIN routeProfiles |-> Unsent]
            /\ evals' = <<>>
            /\ fetches' = [NoFetches EXCEPT !.geocode = 1]
            /\ pc' = "geocodeStart"
       ELSE /\ lastClick' = "ignored"
            /\ UNCHANGED <<hookVars, callVars>>
    /\ UNCHANGED <<startLocation, endLocation, calls>>

\* Mutant: the finally block is missing, so a throw leaves loading as it is.
FailWithoutFinally(message) ==
    /\ error' = Some(message)
    /\ pc' = "idle"
    /\ UNCHANGED <<routes, loading>>

\* Mutant: the catch block drops the message of the error.
FailGeneric(message) ==
    /\ error' = Some("Failed to calculate routes")
    /\ loading' = FALSE
    /\ pc' = "idle"
    /\ UNCHANGED routes

\* catch (err) { setError(err.message) } finally { setLoading(false) }
Fail(message) ==
    /\ error' = Some(message)
    /\ loading' = FALSE
    /\ pc' = "idle"
    /\ UNCHANGED routes

\* The geocoder answers for the origin; the destination is looked up next.
GeocodeStartResponse ==
    /\ UNCHANGED componentVars
    /\ pc = "geocodeStart"
    /\ \E resp \in GeocodeResponses :
         /\ start' = GeocodeLocation(resp)
         /\ geoResp' = [geoResp EXCEPT !.start = resp.kind]
    /\ fetches' = [fetches EXCEPT !.geocode = @ + 1]
    /\ pc' = "geocodeEnd"
    /\ UNCHANGED <<pageVars, hookVars, args, end, routeResults, evals, calls>>

\* if (!start || !end)
EndpointMissing(s, e) == s = None \/ e = None

\* The geocoder answers for the destination: the call throws, or sends one
\* routing request per profile.
GeocodeEndResponse ==
    /\ UNCHANGED componentVars
    /\ pc = "geocodeEnd"
    /\ \E resp \in GeocodeResponses :
         /\ end' = GeocodeLocation(resp)
         /\ geoResp' = [geoResp EXCEPT !.end = resp.kind]
    /\ IF EndpointMissing(start, end')
       THEN /\ Fail(EndpointError)
            /\ UNCHANGED <<routeResults, fetches>>
       ELSE /\ routeResults' = [p \in DOMAIN routeProfiles |-> Pending]
            /\ fetches' = [fetches EXCEPT !.route = Len(routeProfiles)]
            /\ pc' = "routing"
            /\ UNCHANGED hookVars
    /\ UNCHANGED <<pageVars, args, start, evals, calls>>

\* Mutant: the join waits for the first evaluator only.
AnyDone(evs) == \E k \in DOMAIN evs : evs[k].done

\* await Promise.all(validRoutes.map(...)): every evaluator has returned.
AllDone(evs) == \A k \in DOMAIN evs : evs[k].done

RECURSIVE SumCalls(_)
SumCalls(evs) ==
    IF evs = <<>> THEN 0
    ELSE SumCalls(SubSeq(evs, 1, Len(evs) - 1)) + evs[Len(evs)].calls

\* The plan calculateRoutes hands to setRoutes.
RankedPlan(evs) == SortByAqi([k \in 1..Len(evs) |-> RouteDataOf(k, evs[k])])

\* setRoutes(routesWithAQI) and the finally block.
Publish(evs) ==
    /\ routes' = Some(RankedPlan(evs))
    /\ loading' = FALSE
    /\ pc' = "idle"
    /\ UNCHANGED error

\* routeResults.filter(r => r !== null)
ValidRoutes(results) == SelectSeq(results, LAMBDA r : r.value # None)

\* The routing service answers for profile p.  When both promises are
\* settled the call goes on: it throws without a valid route, else starts an
\* evaluator per valid route, and publishes at once if none has to wait.
RouteResponse(p) ==
    /\ UNCHANGED componentVars
    /\ pc = "routing"
    /\ routeResults[p].status = "pending"
    /\ \E resp \in RouteResponses :
         LET results == [routeResults EXCEPT ![p] =
                            [status |-> "resolved", resp |-> resp.kind, len |-> resp.len,
                             value |-> GetRouteFromORS(Val(start), Val(end), p, resp)]]
             settled == \A q \in DOMAIN results : results[q].status = "resolved"
             validRoutes == ValidRoutes(results)
             started == [k \in 1..Len(validRoutes) |->
                            StartEval(Val(validRoutes[k].value))]
         IN  /\ routeResults' = results
             /\ IF ~settled
                THEN UNCHANGED <<hookVars, pc, evals, fetches>>
                ELSE IF Len(validRoutes) = 0
                THEN Fail(NoRoutesError) /\ UNCHANGED <<evals, fetches>>
                ELSE /\ evals' = started
                     /\ fetches' = [fetches EXCEPT !.aqi = SumCalls(started)]
                     /\ IF AllDone(started)
                        THEN Publish(started)
                        ELSE pc' = "evaluating" /\ UNCHANGED hookVars
    /\ UNCHANGED <<pageVars, args, start, end, geoResp, calls>>

\* The measurement service answers the lookup of valid route k.  When the
\* last evaluator returns the call ranks the routes and publishes them.
AQIResponse(k) ==
    /\ UNCHANGED componentVars
    /\ pc = "evaluating"
    /\ k \in DOMAIN evals
    /\ ~evals[k].done
    /\ \E resp \in SamplerResponses :
         LET evs == [evals EXCEPT ![k] = AdvanceEval(@, resp)]
         IN  /\ evals' = evs
             /\ fetches' = [fetches EXCEPT !.aqi = SumCalls(evs)]
             /\ IF AllDone(evs)
                THEN Publish(evs)
                ELSE UNCHANGED <<hookVars, pc>>
    /\ UNCHANGED <<pageVars, args, start, end, geoResp, routeResults, calls>>

Next ==
    \/ SetStartLocation
    \/ SetEndLocation
    \/ HandleFindRoutes
    \/ GeocodeStartResponse
    \/ GeocodeEndResponse
    \/ \E p \in DOMAIN routeProfiles : RouteResponse(p)
    \/ \E k \in DOMAIN routeProfiles : AQIResponse(k)

Spec == Init /\ [][Next]_vars

(***************************************************************************)
(* SpecEval: calculateAQIAlongRoute alone, on a path of any length up to   *)
(* MaxEvalLen.                                                             *)
(***************************************************************************)
EvalRoute(n) ==
    [coordinates |-> SwapAxes(ServiceGeometry(n)),
     distance |-> ServiceDistance(1),
     duration |-> ServiceDuration(1)]

InitEval ==
    /\ ComponentsIdle
    /\ startLocation = "Bangalore, India"
    /\ endLocation = "Bangalore, India"
    /\ lastClick = "started"
    /\ routes = None
    /\ loading = TRUE
    /\ error = None
    /\ args = <<"Bangalore, India", "Bangalore, India">>
    /\ start = None
    /\ end = None
    /\ geoResp = NoGeoResp
    /\ routeResults = [p \in DOMAIN routeProfiles |-> Unsent]
    /\ \E n \in 0..MaxEvalLen : evals = <<StartEval(EvalRoute(n))>>
    /\ fetches = [NoFetches EXCEPT !.aqi = SumCalls(evals)]
    /\ pc = IF AllDone(evals) THEN "returned" ELSE "sampling"
    /\ calls = <<>>

\* The measurement service answers the lookup in flight.
EvalStep ==
    /\ UNCHANGED componentVars
    /\ pc = "sampling"
    /\ \E resp \in EvalSamplerResponses :
         evals' = [evals EXCEPT ![1] = AdvanceEval(@, resp)]
    /\ fetches' = [fetches EXCEPT !.aqi = SumCalls(evals')]
    /\ pc' = IF AllDone(evals') THEN "returned" ELSE "sampling"
    /\ UNCHANGED <<pageVars, hookVars, args, start, end, geoResp, routeResults, calls>>

NextEval == EvalStep

SpecEval == InitEval /\ [][NextEval]_vars

(***************************************************************************)
(* SpecOverlap: the hook alone, its calculateRoutes invoked up to MaxCalls *)
(* times, a later invocation possibly before an earlier one has returned.  *)
(* Every invocation runs the same code on its own locals, and all of them  *)
(* write the one routes, loading and error of the hook.  The services      *)
(* answer from a part of their responses.                                  *)
(***************************************************************************)
OverlapGeocodeResponses ==
    {r \in GeocodeResponses :
        r.kind = "zeroResults" \/ (r.kind = "found" /\ r.place.lat = 26)}

OverlapRouteResponses ==
    {r \in RouteResponses : r.kind = "noFeatures" \/ (r.kind = "ok" /\ r.len = 1)}

OverlapSamplerResponses ==
    {r \in SamplerResponses : r.kind = "error"}

\* The locals of an invocation suspended at its first await.  outcome is
\* what the invocation, when it returns, has stored as routes and error.
NewCall(s, e) ==
    [args |-> <<s, e>>,
     pc |-> "geocodeStart",
     start |-> None,
     end |-> None,
     routeResults |-> [p \in DOMAIN routeProfiles |-> Unsent],
     evals |-> <<>>,
     outcome |-> None]

\* setLoading(true); setError(null); setRoutes(null); and the first lookup.
CalculateRoutes(s, e) ==
    /\ UNCHANGED componentVars
    /\ Len(calls) < MaxCalls
    /\ calls' = Append(calls, NewCall(s, e))
    /\ loading' = TRUE
    /\ error' = None
    /\ routes' = None
    /\ UNCHANGED <<pageVars, callVars>>

\* Invocation c has thrown: its locals after the catch and finally blocks.
Thrown(call, message) ==
    [call EXCEPT !.pc = "returned",
                 !.outcome = Some([routes |-> None, error |-> Some(message)])]

\* Invocation c has stored its plan: its locals after the finally block.
Stored(call, evs) ==
    [call EXCEPT !.pc = "returned",
                 !.evals = evs,
                 !.outcome = Some([routes |-> Some(RankedPlan(evs)), error |-> None])]

\* The geocoder answers invocation c for the origin.
OverlapGeocodeStartResponse(c) ==
    /\ UNCHANGED componentVars
    /\ calls[c].pc = "geocodeStart"
    /\ \E resp \in OverlapGeocodeResponses :
         calls' = [calls EXCEPT ![c].start = GeocodeLocation(resp),
                                ![c].pc = "geocodeEnd"]
    /\ UNCHANGED <<pageVars, hookVars, callVars>>

\* The geocoder answers invocation c for the destination.
OverlapGeocodeEndResponse(c) ==
    /\ UNCHANGED componentVars
    /\ calls[c].pc = "geocodeEnd"
    /\ \E resp \in OverlapGeocodeResponses :
         LET e == GeocodeLocation(resp)
         IN  IF EndpointMissing(calls[c].start, e)
             THEN /\ calls' = [calls EXCEPT ![c] = Thrown([@ EXCEPT !.end = e], EndpointError)]
                  /\ Fail(EndpointError)
             ELSE /\ calls' = [calls EXCEPT
                                 ![c].end = e,
                                 ![c].routeResults = [p \in DOMAIN routeProfiles |-> Pending],
                                 ![c].pc = "routing"]
                  /\ UNCHANGED hookVars
    /\ UNCHANGED <<pageVars, callVars>>

\* The routing service answers invocation c for profile p.
OverlapRouteResponse(c, p) ==
    /\ UNCHANGED componentVars
    /\ calls[c].pc = "routing"
    /\ calls[c].routeResults[p].status = "pending"
    /\ \E resp \in OverlapRouteResponses :
         LET results == [calls[c].routeResults EXCEPT ![p] =
                            [status |-> "resolved", resp |-> resp.kind, len |-> resp.len,
                             value |-> GetRouteFromORS(Val(calls[c].start),
                                                       Val(calls[c].end), p, resp)]]
             settled == \A q \in DOMAIN results : results[q].status = "resolved"
             validRoutes == ValidRoutes(results)
             started == [k \in 1..Len(validRoutes) |->
                            StartEval(Val(validRoutes[k].value))]
             call == [calls[c] EXCEPT !.routeResults = results]
         IN  IF ~settled
             THEN /\ calls' = [calls EXCEPT ![c] = call]
                  /\ UNCHANGED hookVars
             ELSE IF Len(validRoutes) = 0
             THEN /\ calls' = [calls EXCEPT ![c] = Thrown(call, NoRoutesError)]
                  /\ Fail(NoRoutesError)
             ELSE IF AllDone(started)
             THEN /\ calls' = [calls EXCEPT ![c] = Stored(call, started)]
                  /\ Publish(started)
             ELSE /\ calls' = [calls EXCEPT ![c] =
                                 [call EXCEPT !.evals = started, !.pc = "evaluating"]]
                  /\ UNCHANGED hookVars
    /\ UNCHANGED <<pageVars, callVars>>

\* The measurement service answers the lookup of valid route k of
\* invocation c.
OverlapAQIResponse(c, k) ==
    /\ UNCHANGED componentVars
    /\ calls[c].pc = "evaluating"
    /\ k \in DOMAIN calls[c].evals
    /\ ~calls[c].evals[k].done
    /\ \E resp \in OverlapSamplerResponses :
         LET evs == [calls[c].evals EXCEPT ![k] = AdvanceEval(@, resp)]
         IN  IF AllDone(evs)
             THEN /\ calls' = [calls EXCEPT ![c] = Stored(@, evs)]
                  /\ Publish(evs)
             ELSE /\ calls' = [calls EXCEPT ![c].evals = evs]
                  /\ UNCHANGED hookVars
    /\ UNCHANGED <<pageVars, callVars>>

NextOverlap ==
    \/ \E s, e \in Names \ {""} : CalculateRoutes(s, e)
    \/ \E c \in DOMAIN calls : OverlapGeocodeStartResponse(c)
    \/ \E c \in DOMAIN calls : OverlapGeocodeEndResponse(c)
    \/ \E c \in DOMAIN calls : \E p \in DOMAIN routeProfiles : OverlapRouteResponse(c, p)
    \/ \E c \in DOMAIN calls : \E k \in DOMAIN routeProfiles : OverlapAQIResponse(c, k)

SpecOverlap == Init /\ [][NextOverlap]_vars

(***************************************************************************)
(* SpecPage: the page with its two inputs and its button, and up to        *)
(* MaxCalls invocations of the hook, each with its own locals.             *)
(* SpecLive: the same from the page with both texts typed, every fetch in  *)
(* flight settled in the end, by a response or by a failure.               *)
(***************************************************************************)
\* Some fetch of some invocation is settled.
OverlapResponse ==
    \/ \E c \in DOMAIN calls : OverlapGeocodeStartResponse(c)
    \/ \E c \in DOMAIN calls : OverlapGeocodeEndResponse(c)
    \/ \E c \in DOMAIN calls : \E p \in DOMAIN routeProfiles : OverlapRouteResponse(c, p)
    \/ \E c \in DOMAIN calls : \E k \in DOMAIN routeProfiles : OverlapAQIResponse(c, k)

\* Mutant: the button is disabled for an empty text only.
FindRoutesDisabledForTextsOnly == startLocation = "" \/ endLocation = ""

\* disabled={loading || !startLocation || !endLocation}
FindRoutesDisabled == loading \/ startLocation = "" \/ endLocation = ""

\* A click on the enabled button: handleFindRoutes invokes calculateRoutes
\* with the two texts.
ClickFindRoutes ==
    /\ ~FindRoutesDisabled
    /\ TextsPresent(startLocation, endLocation)
    /\ CalculateRoutes(startLocation, endLocation)

NextPage ==
    \/ SetStartLocation
    \/ SetEndLocation
    \/ ClickFindRoutes
    \/ \E c \in DOMAIN calls : OverlapGeocodeStartResponse(c)
    \/ \E c \in DOMAIN calls : OverlapGeocodeEndResponse(c)
    \/ \E c \in DOMAIN calls : \E p \in DOMAIN routeProfiles : OverlapRouteResponse(c, p)
    \/ \E c \in DOMAIN calls : \E k \in DOMAIN routeProfiles : OverlapAQIResponse(c, k)

SpecPage == Init /\ [][NextPage]_vars

\* The page after both texts have been typed.
InitLive ==
    /\ ComponentsIdle
    /\ startLocation = "Bangalore, India"
    /\ endLocation = "Bangalore, India"
    /\ lastClick = "none"
    /\ routes = None
    /\ loading = FALSE
    /\ error = None
    /\ pc = "idle"
    /\ args = <<"", "">>
    /\ start = None
    /\ end = None
    /\ geoResp = NoGeoResp
    /\ routeResults = [p \in DOMAIN routeProfiles |-> Unsent]
    /\ evals = <<>>
    /\ fetches = NoFetches
    /\ calls = <<>>

NextLive ==
    \/ ClickFindRoutes
    \/ \E c \in DOMAIN calls : OverlapGeocodeStartResponse(c)
    \/ \E c \in DOMAIN calls : OverlapGeocodeEndResponse(c)
    \/ \E c \in DOMAIN calls : \E p \in DOMAIN routeProfiles : OverlapRouteResponse(c, p)
    \/ \E c \in DOMAIN calls : \E k \in DOMAIN routeProfiles : OverlapAQIResponse(c, k)

SpecLive == InitLive /\ [][NextLive]_vars /\ WF_vars(OverlapResponse)

(***************************************************************************)
(* SpecHang: SpecOverlap in which every fetch is settled in the end unless *)
(* the service never settles it, which it may do to any fetch.             *)
(* The fetch calls carry no signal and no timer runs beside them, so the   *)
(* invocation stays suspended at that await.                               *)
(***************************************************************************)
\* The fetch invocation c is waiting for is never settled.
CallHangs(c) ==
    /\ UNCHANGED componentVars
    /\ calls[c].pc \in {"geocodeStart", "geocodeEnd", "routing", "evaluating"}
    /\ calls' = [calls EXCEPT ![c].pc = "hung"]
    /\ UNCHANGED <<pageVars, hookVars, callVars>>

NextHang ==
    \/ \E s, e \in Names \ {""} : CalculateRoutes(s, e)
    \/ \E c \in DOMAIN calls : OverlapGeocodeStartResponse(c)
    \/ \E c \in DOMAIN calls : OverlapGeocodeEndResponse(c)
    \/ \E c \in DOMAIN calls : \E p \in DOMAIN routeProfiles : OverlapRouteResponse(c, p)
    \/ \E c \in DOMAIN calls : \E k \in DOMAIN routeProfiles : OverlapAQIResponse(c, k)
    \/ \E c \in DOMAIN calls : CallHangs(c)

SpecHang == Init /\ [][NextHang]_vars /\ WF_vars(OverlapResponse)

(***************************************************************************)
(* RoutePlanner: what the page renders from routes.                        *)
(***************************************************************************)
RECURSIVE ReduceCleanestLast(_, _)
\* Mutant: <= in place of <, so the last of several minimal routes wins.
ReduceCleanestLast(prev, rest) ==
    IF rest = <<>> THEN prev
    ELSE ReduceCleanestLast(IF MeanLeq(Head(rest).avgAqi, prev.avgAqi)
                            THEN Head(rest) ELSE prev,
                            Tail(rest))

RECURSIVE ReduceCleanest(_, _)
\* routes.reduce((prev, current) => current.avgAqi < prev.avgAqi ? current : prev)
ReduceCleanest(prev, rest) ==
    IF rest = <<>> THEN prev
    ELSE ReduceCleanest(IF MeanLess(Head(rest).avgAqi, prev.avgAqi)
                        THEN Head(rest) ELSE prev,
                        Tail(rest))

\* getCleanestRoute()
GetCleanestRoute(rts) ==
    IF rts = None \/ Val(rts) = <<>> THEN None
    ELSE Some(ReduceCleanest(Head(Val(rts)), Tail(Val(rts))))

NumberOf(n) == [kind |-> "number", n |-> n]
NotANumber == [kind |-> "NaN", n |-> 0]
Infinite(sign) == [kind |-> IF sign > 0 THEN "Infinity" ELSE "-Infinity", n |-> 0]

\* Math.round(q) for the quotient q = n / d, d > 0: floor(q + 1/2).
RoundQuotient(n, d) == (2 * n + d) \div (2 * d)

\* Math.round(((route.avgAqi - cleanest.avgAqi) / cleanest.avgAqi) * 100):
\* with the means a = route.avgAqi and c = cleanest.avgAqi the quotient is
\* (a.num * c.den - c.num * a.den) * 100 / (a.den * c.num).
CleanerPercent(route, cleanest) ==
    LET a == route.avgAqi
        c == cleanest.avgAqi
        n == (a.num * c.den - c.num * a.den) * 100
        d == a.den * c.num
    IN  IF IsNaN(a) \/ IsNaN(c) THEN NotANumber
        ELSE IF d = 0
             THEN IF n = 0 THEN NotANumber ELSE Infinite(n)
             ELSE IF d > 0 THEN NumberOf(RoundQuotient(n, d))
                  ELSE NumberOf(RoundQuotient(-n, -d))

\* const isCleanest = route.id === cleanestRoute?.id;
IsCleanest(route, cleanest) == cleanest # None /\ route.id = Val(cleanest).id

\* The page's cleanerPercent of a listed route.
CleanerPercentOf(route, cleanest) ==
    IF cleanest # None THEN CleanerPercent(route, Val(cleanest)) ELSE NumberOf(0)

(***************************************************************************)
(* RouteMap: what the map draws from the routes it is handed               *)
(* (routes || []).                                                         *)
(***************************************************************************)
RECURSIVE MapReduceCleanest(_, _)
\* routes.reduce((prev, current) => current.avgAqi < prev.avgAqi ? current : prev)
MapReduceCleanest(prev, rest) ==
    IF rest = <<>> THEN prev
    ELSE MapReduceCleanest(IF MeanLess(Head(rest).avgAqi, prev.avgAqi)
                           THEN Head(rest) ELSE prev,
                           Tail(rest))

\* The effect's cleanestRoute; the effect returns early on an empty list.
MapCleanestRoute(rs) ==
    IF rs = <<>> THEN None ELSE Some(MapReduceCleanest(Head(rs), Tail(rs)))

\* const isCleanest = route.id === cleanestRoute.id; the popup of such a
\* route carries the Recommended line.
MapIsCleanest(route, rs) ==
    MapCleanestRoute(rs) # None /\ route.id = Val(MapCleanestRoute(rs)).id

(***************************************************************************)
(* SpecSearch: LocationSearch.  Time is counted in units of 100 ms; a      *)
(* timer set by setTimeout runs its callback when its delay has passed.    *)
(***************************************************************************)
\* The keystrokes and the span of time of SpecSearch.
MaxKeystrokes == 3
MaxTime == 6

\* The 300 ms of setTimeout(..., 300), in units of 100 ms.
DebounceDelay == 3

\* What the input can hold after a keystroke.
TypedValues == {"de", "delhi"}

\* searchQuery.length
QueryLength(q) == IF q = "" THEN 0 ELSE IF q = "de" THEN 2 ELSE 5

\* !searchQuery.trim() || searchQuery.length < 3
TooShortToSearch(q) == q = "" \/ QueryLength(q) < 3

\* The timers left pending when the handler runs: handleInputChange returns
\* () => clearTimeout(timeoutId) to its caller, which drops it, so no timer
\* is cleared.  A timer whose delay has not passed at this keystroke is
\* marked: its keystroke was followed by another less than 300 ms later.
PendingTimers(timers) ==
    [i \in DOMAIN timers |->
        [timers[i] EXCEPT !.superseded = @ \/ search.now < timers[i].due]]

\* onChange of the input: setQuery(value) and setTimeout(..., 300).
HandleInputChange(value) ==
    /\ search.keystrokes < MaxKeystrokes
    /\ search' = [search EXCEPT
                    !.query = value,
                    !.keystrokes = @ + 1,
                    !.timers = Append(PendingTimers(@),
                                      [value |-> value,
                                       due |-> search.now + DebounceDelay,
                                       superseded |-> FALSE])]
    /\ UNCHANGED <<plannerVars, form, saved, nasa>>

\* 100 ms pass; a timer whose delay has passed runs before time goes on.
Tick ==
    /\ search.now < MaxTime
    /\ \A i \in DOMAIN search.timers : search.timers[i].due > search.now
    /\ search' = [search EXCEPT !.now = @ + 1]
    /\ UNCHANGED <<plannerVars, form, saved, nasa>>

\* The oldest timer runs searchLocations(value): a short query clears the
\* results, any other sets isSearching and sends the request.
TimerFires ==
    /\ search.timers # <<>>
    /\ Head(search.timers).due <= search.now
    /\ LET timer == Head(search.timers)
           call == [value |-> timer.value, superseded |-> timer.superseded,
                    query |-> search.query]
       IN  search' = IF TooShortToSearch(timer.value)
                     THEN [search EXCEPT !.timers = Tail(@),
                                         !.searched = Append(@, call),
                                         !.results = ""]
                     ELSE [search EXCEPT !.timers = Tail(@),
                                         !.searched = Append(@, call),
                                         !.isSearching = TRUE,
                                         !.fetching = Append(@, timer.value)]
    /\ UNCHANGED <<plannerVars, form, saved, nasa>>

\* Nominatim answers the oldest search request: the results are stored, or
\* cleared when the request failed; finally setIsSearching(false).
SearchResponse ==
    /\ search.fetching # <<>>
    /\ \E ok \in BOOLEAN :
         search' = [search EXCEPT
                      !.fetching = Tail(@),
                      !.results = IF ok THEN Head(search.fetching) ELSE "",
                      !.isSearching = FALSE]
    /\ UNCHANGED <<plannerVars, form, saved, nasa>>

NextSearch ==
    \/ \E value \in TypedValues \ {search.query} : HandleInputChange(value)
    \/ Tick
    \/ TimerFires
    \/ SearchResponse

SpecSearch == Init /\ [][NextSearch]_vars

(***************************************************************************)
(* SpecForm: the files of FeedbackForm.  A file is its size in bytes.      *)
(***************************************************************************)
\* The longest selection of the file dialog in SpecForm.
MaxSelection == 2

\* const maxFiles = 5;
maxFiles == 5
\* const maxSize = 10 * 1024 * 1024;
maxSize == 10485760

\* The sizes of the files the user can select.
FileSizes == {1, maxSize, maxSize + 1}

\* event.target.files: the selections of the dialog.
Selections ==
    UNION {[1..n -> FileSizes] : n \in 0..MaxSelection}

\* Mutant: no file is filtered out for its size.
ValidFilesUnfiltered(selection) == selection

\* files.filter(file => !(file.size > maxSize))
ValidFiles(selection) == SelectSeq(selection, LAMBDA size : ~(size > maxSize))

\* onChange of the file input.  op and selection record the event, tooLarge
\* the number of 'File too large' toasts, tooMany the 'Too many files' one.
HandleFileUpload(selection) ==
    LET validFiles == ValidFiles(selection)
        totalFiles == Len(form.files) + Len(validFiles)
    IN  /\ form' = [op |-> "upload",
                    selection |-> selection,
                    tooLarge |-> Len(selection) - Len(validFiles),
                    tooMany |-> totalFiles > maxFiles,
                    files |-> IF totalFiles > maxFiles
                              THEN form.files
                              ELSE form.files \o validFiles]
        /\ UNCHANGED <<plannerVars, search, saved, nasa>>

\* prev.files.filter((_, i) => i !== index), from the button of a listed file.
RemoveFile(index) ==
    /\ index \in DOMAIN form.files
    /\ form' = [form EXCEPT
                  !.op = "remove",
                  !.files = SubSeq(@, 1, index - 1) \o SubSeq(@, index + 1, Len(@))]
    /\ UNCHANGED <<plannerVars, search, saved, nasa>>

NextForm ==
    \/ \E selection \in Selections : HandleFileUpload(selection)
    \/ \E index \in 1..maxFiles : RemoveFile(index)

SpecForm == Init /\ [][NextForm]_vars

(***************************************************************************)
(* SpecSaved: the saved locations of Index and their copy in localStorage. *)
(* JSON text is modelled as the sequence of an object's keys and values.   *)
(***************************************************************************)
\* place_id of the places the user can select.
LocationIds == {"p1", "p2", "p3"}

\* Date.now() at the selection of a place: the same place selected twice
\* gives two LocationData of one id.
Timestamps == {1, 2}

\* The LocationData the user can select (coordinates in half degrees).
Locations ==
    {[id |-> i, name |-> i, lat |-> 26, lon |-> 156, timestamp |-> t] :
        i \in LocationIds, t \in Timestamps}

\* JSON.stringify of a list of LocationData.
StringifyLocations(list) ==
    [k \in DOMAIN list |->
        <<"id", list[k].id, "name", list[k].name, "lat", list[k].lat,
          "lon", list[k].lon, "timestamp", list[k].timestamp>>]

\* JSON.parse of such a text.
ParseLocations(text) ==
    [k \in DOMAIN text |->
        [id |-> text[k][2], name |-> text[k][4], lat |-> text[k][6],
         lon |-> text[k][8], timestamp |-> text[k][10]]]

\* What an earlier visit can have left in localStorage: nothing, or the
\* list it held.
StoredByEarlierVisit ==
    {None, Some(StringifyLocations(<<>>))}
    \cup {Some(StringifyLocations(<<l>>)) : l \in Locations}

\* useEffect(..., []): the stored list, if any, becomes the state.
LoadSavedLocations ==
    /\ ~saved.mounted
    /\ saved' = [saved EXCEPT
                   !.mounted = TRUE,
                   !.savedLocations = IF saved.storage = None THEN @
                                      ELSE ParseLocations(Val(saved.storage))]
    /\ UNCHANGED <<plannerVars, search, form, nasa>>

\* Mutant: an entry counts as saved only if it is the same in every field.
AlreadySavedSameEntry(list, location) ==
    \E k \in DOMAIN list : list[k] = location

\* savedLocations.find(loc => loc.id === location.id)
AlreadySaved(list, location) ==
    \E k \in DOMAIN list : list[k].id = location.id

\* handleSaveLocation(location); lastCall records the call and the list
\* before it.
HandleSaveLocation(location) ==
    /\ saved.mounted
    /\ LET updated == Append(saved.savedLocations, location)
           call == [op |-> "save", id |-> location.id,
                    before |-> saved.savedLocations]
       IN  saved' = IF AlreadySaved(saved.savedLocations, location)
                    THEN [saved EXCEPT !.lastCall = call]
                    ELSE [saved EXCEPT !.lastCall = call,
                                       !.savedLocations = updated,
                                       !.storage = Some(StringifyLocations(updated))]
    /\ UNCHANGED <<plannerVars, search, form, nasa>>

\* handleRemoveLocation(locationId)
HandleRemoveLocation(locationId) ==
    /\ saved.mounted
    /\ LET updated == SelectSeq(saved.savedLocations,
                                LAMBDA loc : loc.id # locationId)
       IN  saved' = [saved EXCEPT
                       !.lastCall = [op |-> "remove", id |-> locationId,
                                     before |-> saved.savedLocations],
                       !.savedLocations = updated,
                       !.storage = Some(StringifyLocations(updated))]
    /\ UNCHANGED <<plannerVars, search, form, nasa>>

InitSaved ==
    /\ PlannerIdle
    /\ search = InitialSearch
    /\ form = InitialForm
    /\ nasa = InitialNasa
    /\ \E stored \in StoredByEarlierVisit :
         saved = [InitialSaved EXCEPT !.storage = stored]

NextSaved ==
    \/ LoadSavedLocations
    \/ \E location \in Locations : HandleSaveLocation(location)
    \/ \E locationId \in LocationIds : HandleRemoveLocation(locationId)

SpecSaved == InitSaved /\ [][NextSaved]_vars

(***************************************************************************)
(* SpecNasa: the fetch-nasa-data edge function, one request after another. *)
(***************************************************************************)
\* Requests served in one run; the handlers of several requests interleave
\* at their awaits.
MaxRequests == 2

RequiredMessage == "Latitude and longitude are required"

\* A coordinate of the request body: absent, 0, or another number.
BodyCoordinates == {None, Some(0), Some(26)}

\* Request bodies: text that is not JSON, or an object with or without lat
\* and lon.
RequestBodies ==
    {[json |-> FALSE, lat |-> None, lon |-> None]}
    \cup {[json |-> TRUE, lat |-> la, lon |-> lo] :
            la \in BodyCoordinates, lo \in BodyCoordinates}

\* !lat, for lat undefined or a number: undefined and 0 are falsy.
Missing(coordinate) == coordinate = None \/ Val(coordinate) = 0

Answer(status, text) == Some([status |-> status, text |-> text])

\* serve's handler for a new request, up to its first await of fetch.
ServeRequest(method, body) ==
    /\ Len(nasa.requests) < MaxRequests
    /\ LET received == [pc |-> "answered", method |-> method, body |-> body,
                        earthData |-> None, response |-> None]
           handled ==
             IF method = "OPTIONS"
             THEN [received EXCEPT !.response = Answer(200, "ok")]
             ELSE IF ~body.json
             THEN [received EXCEPT !.response = Answer(400, "Unexpected token")]
             ELSE IF Missing(body.lat) \/ Missing(body.lon)
             THEN [received EXCEPT !.response = Answer(400, RequiredMessage)]
             ELSE [received EXCEPT !.pc = "power"]
       IN  nasa' = [nasa EXCEPT !.requests = Append(@, handled)]
    /\ UNCHANGED <<plannerVars, search, form, saved>>

\* The NASA POWER fetch of request r settles: its JSON, a network error, or
\* a body that is not JSON.
PowerResponse(r, outcome) ==
    /\ nasa.requests[r].pc = "power"
    /\ nasa' = [nasa EXCEPT !.requests[r] =
         IF outcome = "failed"
         THEN [@ EXCEPT !.pc = "answered",
                        !.response = Answer(400, "error sending request")]
         ELSE IF outcome = "notJson"
         THEN [@ EXCEPT !.pc = "answered",
                        !.response = Answer(400, "Unexpected token")]
         ELSE IF nasa.hasKey
         THEN [@ EXCEPT !.pc = "earth"]
         ELSE [@ EXCEPT !.pc = "answered",
                        !.response = Answer(200, "result")]]
    /\ UNCHANGED <<plannerVars, search, form, saved>>

\* The EarthData fetch of request r settles; its failures are caught and
\* logged.
EarthResponse(r, outcome) ==
    /\ nasa.requests[r].pc = "earth"
    /\ nasa' = [nasa EXCEPT !.requests[r] =
                  [@ EXCEPT !.pc = "answered",
                            !.earthData = IF outcome = "ok"
                                          THEN Some("air-quality") ELSE None,
                            !.response = Answer(200, "result")]]
    /\ UNCHANGED <<plannerVars, search, form, saved>>

\* Deployed with or without NASA_API_KEY.
InitNasa ==
    /\ PlannerIdle
    /\ search = InitialSearch
    /\ form = InitialForm
    /\ saved = InitialSaved
    /\ \E hasKey \in BOOLEAN : nasa = [InitialNasa EXCEPT !.hasKey = hasKey]

NextNasa ==
    \/ \E method \in {"OPTIONS", "POST"}, body \in RequestBodies :
         ServeRequest(method, body)
    \/ \E r \in DOMAIN nasa.requests, outcome \in {"json", "failed", "notJson"} :
         PowerResponse(r, outcome)
    \/ \E r \in DOMAIN nasa.requests, outcome \in {"ok", "notOk", "threw"} :
         EarthResponse(r, outcome)

SpecNasa == InitNasa /\ [][NextNasa]_vars

(***************************************************************************)
(* Claims.                                                                 *)
(***************************************************************************)
\* The published plan, or the empty sequence while none is published.
Plan == IF routes = None THEN <<>> ELSE Val(routes)

\* The index of a route among the valid routes, from its identifier.
InputIndex(route) == route.id[2]

CeilDiv(a, b) == (a + b - 1) \div b

PathLen(ev) == Len(ev.route.coordinates)

\* C1: every published plan is sorted ascending by mean pollution index:
\* routes[i].avgAqi <= routes[j].avgAqi for all positions i < j, so that the
\* route of minimum mean is first.
C1_PlanSortedAscending ==
    \A i, j \in DOMAIN Plan :
        i < j => MeanLeq(Plan[i].avgAqi, Plan[j].avgAqi)

\* C2: for a path of L >= 1 points the evaluator sends exactly
\* ceil(L / stride) lookups, with stride = max(1, floor(L / 10)).
C2_SamplerCallCount ==
    \A k \in DOMAIN evals :
        (evals[k].done /\ PathLen(evals[k]) >= 1) =>
            evals[k].calls = CeilDiv(PathLen(evals[k]), Max(1, PathLen(evals[k]) \div 10))

\* C2 witness: the evaluator has returned for a path sampled with a stride
\* above 1.
C2_Witness ==
    \E k \in DOMAIN evals :
        evals[k].done /\ PathLen(evals[k]) = 25 /\ evals[k].calls = 13

\* C3 as stated: the evaluator never sends more than C + 1 = 11 lookups for
\* one route.
C3_AtMostCapPlusOne ==
    \A k \in DOMAIN evals : evals[k].calls <= 11

\* C3 amended: the evaluator never sends more than 2C - 1 = 19 lookups for
\* one route, whatever the length of the path.
C3_AtMostTwiceCapMinusOne ==
    \A k \in DOMAIN evals : evals[k].calls <= 19

\* C3 witness: the evaluator has returned after 19 lookups (a path of 19
\* points, still sampled at every point).
C3_Witness ==
    \E k \in DOMAIN evals :
        evals[k].done /\ evals[k].calls = 19 /\ Len(evals[k].aqiPoints) = 19

\* C4: two routes of a published plan with identical means stand in the
\* order of their travel profiles (the order in which they were evaluated).
C4_TiesKeepInputOrder ==
    \A i, j \in DOMAIN Plan :
        (i < j /\ MeanEq(Plan[i].avgAqi, Plan[j].avgAqi)) =>
            InputIndex(Plan[i]) < InputIndex(Plan[j])

\* C4 witness: a published plan of two routes with identical means.
C4_Witness ==
    /\ Len(Plan) = 2
    /\ MeanEq(Plan[1].avgAqi, Plan[2].avgAqi)

\* A premium that is >= 0: a number >= 0 or Infinity; NaN >= 0 is false.
NonNegative(x) == x.kind = "Infinity" \/ (x.kind = "number" /\ x.n >= 0)

\* C5: for every route of a published plan that is not the recommended one,
\* the premium the page computes is >= 0.
C5_PremiumNonNegative ==
    \A i \in DOMAIN Plan :
        ~IsCleanest(Plan[i], GetCleanestRoute(routes)) =>
            NonNegative(CleanerPercentOf(Plan[i], GetCleanestRoute(routes)))

\* The routing responses on which the service call fails: a non-ok status or
\* rejected fetch, or a payload the adapter cannot read.
FailedCallKinds == {"httpError", "malformed"}

\* The candidate is the straight line from s to e: three points, the origin,
\* the midpoint and the destination.
IsStraightLine(route, s, e) ==
    /\ Len(route.coordinates) = 3
    /\ route.coordinates[1] = <<s.lat, s.lon>>
    /\ route.coordinates[3] = <<e.lat, e.lon>>
    /\ 2 * route.coordinates[2][1] = s.lat + e.lat
    /\ 2 * route.coordinates[2][2] = s.lon + e.lon

\* C6 as stated: whenever the routing call fails, the adapter returns a
\* non-null candidate with the 3-point path and distance > 0, duration > 0.
C6_FallbackPositive ==
    \A p \in DOMAIN routeResults :
        routeResults[p].resp \in FailedCallKinds =>
            /\ routeResults[p].value # None
            /\ IsStraightLine(Val(routeResults[p].value), Val(start), Val(end))
            /\ Val(routeResults[p].value).distance > 0
            /\ Val(routeResults[p].value).duration > 0

\* C6 amended: whenever the routing call fails, the adapter returns a
\* non-null candidate with the 3-point path, duration 3600 and a distance
\* that is >= 0, and > 0 exactly when origin and destination differ.
C6_FallbackTotal ==
    \A p \in DOMAIN routeResults :
        routeResults[p].resp \in FailedCallKinds =>
            /\ routeResults[p].value # None
            /\ IsStraightLine(Val(routeResults[p].value), Val(start), Val(end))
            /\ Val(routeResults[p].value).distance >= 0
            /\ (Val(routeResults[p].value).distance > 0) <=> (start # end)
            /\ Val(routeResults[p].value).duration = 3600

\* C6 witness: the routing call has failed for every profile, for two
\* different endpoints.
C6_Witness ==
    /\ start # end
    /\ \A p \in DOMAIN routeResults : routeResults[p].resp \in FailedCallKinds

NotFoundKinds == {"zeroResults", "networkError", "malformed"}

\* Both geocoder answers of the request have been handled.
GeocodingOver == geoResp.start # "none" /\ geoResp.end # "none"

\* C8: when the geocoder answers zero results, a network error or a
\* malformed body for the origin or the destination, the request ends with
\* the endpoint-resolution error, no plan is published, and no routing or
\* air-quality call is sent.
C8_EndpointFailureIsFatal ==
    (GeocodingOver /\ (geoResp.start \in NotFoundKinds \/ geoResp.end \in NotFoundKinds)) =>
        /\ pc = "idle"
        /\ ~loading
        /\ error = Some(EndpointError)
        /\ routes = None
        /\ fetches.route = 0
        /\ fetches.aqi = 0

\* C8 witness: a request has ended whose origin was found and whose
\* destination lookup failed with a network error.
C8_Witness ==
    /\ geoResp.start = "found"
    /\ geoResp.end = "networkError"
    /\ error = Some(EndpointError)

C10_PlanPublishedAndRanked ==
    (/\ pc = "idle"
     /\ start # None
     /\ end # None
     /\ \E p \in DOMAIN routeResults : routeResults[p].value # None) =>
        /\ routes # None
        /\ Len(Plan) >= 1
        /\ C1_PlanSortedAscending
        /\ \A i \in DOMAIN Plan : MeanLeq(Plan[1].avgAqi, Plan[i].avgAqi)
        /\ error = None

\* C12: every value fetchAQIData has returned lies in 0..500.
C12_SamplesWithinRange ==
    \A k \in DOMAIN evals :
        \A j \in DOMAIN evals[k].aqiPoints :
            /\ evals[k].aqiPoints[j].aqi >= 0
            /\ evals[k].aqiPoints[j].aqi <= 50000

\* The lookups of an evaluator that have been answered.
Answered(ev) == IF ev.done THEN ev.calls ELSE ev.calls - 1

\* The number of indices 0, stride, 2 * stride, ... below len.
SampledIndices(len) == IF len = 0 THEN 0 ELSE CeilDiv(len, Max(1, len \div 10))

C14_NoEmptyRouteRanked ==
    \A i \in DOMAIN Plan :
        /\ Len(Plan[i].aqiPoints) >= 1
        /\ ~IsNaN(Plan[i].avgAqi)

\* C15: the endpoint-resolution error is held exactly when the geocoder
\* found nothing for the origin or the destination of the request, and the
\* no-routes error exactly when both were geocoded and every profile's
\* routing promise resolved to null.
C15_ErrorsDistinguished ==
    /\ error = Some(EndpointError) <=>
           (GeocodingOver /\ (geoResp.start \in NotFoundKinds \/ geoResp.end \in NotFoundKinds))
    /\ error = Some(NoRoutesError) <=>
           /\ geoResp.start = "found"
           /\ geoResp.end = "found"
           /\ \A p \in DOMAIN routeResults :
                  routeResults[p].status = "resolved" /\ routeResults[p].value = None
    /\ error \in {None, Some(EndpointError), Some(NoRoutesError)}

\* C15 witness: both endpoints were geocoded, no profile gave a route, and
\* the no-routes error is held.
C15_Witness ==
    /\ geoResp.start = "found"
    /\ geoResp.end = "found"
    /\ error = Some(NoRoutesError)

\* The positions of the plan the page marks as recommended.
PageRecommended ==
    {i \in DOMAIN Plan : IsCleanest(Plan[i], GetCleanestRoute(routes))}

\* The positions of the plan the map marks as recommended.
MapRecommended ==
    {i \in DOMAIN Plan : MapIsCleanest(Plan[i], Plan)}

\* C16: in every published plan with a route, the page marks exactly one
\* route as recommended, it is routes[0], and the map marks the same route.
C16_RecommendedIsFirst ==
    (routes # None /\ Len(Plan) >= 1) =>
        /\ PageRecommended = {1}
        /\ MapRecommended = PageRecommended

\* C16 witness: a published plan of two routes that tie for the minimum
\* mean.
C16_Witness ==
    /\ Len(Plan) = 2
    /\ MeanEq(Plan[1].avgAqi, Plan[2].avgAqi)
    /\ PageRecommended = {1}

RECURSIVE TotalAqi(_)
\* The sum of the samples' values, first to last.
TotalAqi(points) ==
    IF points = <<>> THEN 0 ELSE Head(points).aqi + TotalAqi(Tail(points))

\* C17: the mean of every route of a published plan is the sum of its
\* samples' values divided by their number.
C17_MeanIsArithmeticMean ==
    \A i \in DOMAIN Plan :
        /\ Plan[i].avgAqi.num = TotalAqi(Plan[i].aqiPoints)
        /\ Plan[i].avgAqi.den = Len(Plan[i].aqiPoints)

\* C17 witness: a published route with three samples of three different
\* values.
C17_Witness ==
    \E i \in DOMAIN Plan :
        /\ Len(Plan[i].aqiPoints) = 3
        /\ Cardinality({Plan[i].aqiPoints[j].aqi : j \in 1..3}) = 3

\* Every branch of the request has completed: both routing promises are
\* settled, every valid route has an evaluator, and every evaluator has got
\* an answer to each lookup of its loop.
Joined ==
    /\ \A p \in DOMAIN routeResults : routeResults[p].status = "resolved"
    /\ Len(evals) = Len(ValidRoutes(routeResults))
    /\ \A k \in DOMAIN evals :
           /\ Len(evals[k].aqiPoints) = evals[k].calls
           /\ evals[k].calls = SampledIndices(PathLen(evals[k]))

\* C18, as stated: setRoutes is called only after every route fetch and
\* every sampler call of the request has completed, so the routes change
\* only at the join.
C18_SetRoutesOnlyAfterJoin ==
    [][routes' # routes => Joined']_vars

\* C18, amended: a plan is held only when every branch of its request has
\* completed, and a plan is set only at the join, over the empty value the
\* request stored when it began, so once per request.
C18_PlanOnlyAfterJoin ==
    /\ [](routes # None => (Joined /\ pc = "idle" /\ Len(Plan) = Len(evals)))
    /\ [][(routes' # routes /\ routes' # None) => (routes = None /\ Joined')]_vars

\* C18 witness: a plan of two routes is held, each with two samples or
\* more, so several lookups of two concurrent evaluators were waited for.
C18_Witness ==
    /\ Len(Plan) = 2
    /\ \A i \in 1..2 : Len(Plan[i].aqiPoints) >= 2

\* The positions of the plan that hold the route evaluated as valid route k.
PositionsOf(k) == {i \in DOMAIN Plan : Plan[i].id = RouteId(k - 1)}

\* Whether plan route r carries what the evaluation of valid route k gave.
SameAsEvaluated(r, k) ==
    /\ r.coordinates = evals[k].route.coordinates
    /\ r.distance = evals[k].route.distance
    /\ r.duration = evals[k].route.duration
    /\ r.aqiPoints = evals[k].aqiPoints
    /\ r.avgAqi.num = TotalAqi(evals[k].aqiPoints)
    /\ r.avgAqi.den = Len(evals[k].aqiPoints)

\* C19: a published plan is a permutation of the evaluated routes: it has
\* as many routes as were evaluated, each evaluated route stands at exactly
\* one position, and there its path, distance, duration, samples and mean
\* are those of its evaluation.
C19_RankingOnlyReorders ==
    routes # None =>
        /\ Len(Plan) = Len(evals)
        /\ \A k \in DOMAIN evals :
               /\ Cardinality(PositionsOf(k)) = 1
               /\ \A i \in PositionsOf(k) : SameAsEvaluated(Plan[i], k)

\* C19 witness: a published plan in which the ranking has moved the second
\* evaluated route in front of the first.
C19_Witness ==
    /\ Len(Plan) = 2
    /\ Plan[1].id = RouteId(1)
    /\ Plan[2].id = RouteId(0)

\* The stride of the samples of a path of len coordinates.
Stride(len) == Max(1, len \div 10)

\* C20: within one route, sample number j (from 1) is the coordinate at
\* path index (j - 1) * stride, so the samples are taken at indices 0,
\* stride, 2 * stride, ... and keep path order; at most one lookup is
\* unanswered at any time, and one is while the evaluator has not returned;
\* a path with a coordinate has its index 0 looked up; and the evaluator
\* returns only when the next index is beyond the path.
C20_SamplesInPathOrder ==
    \A k \in DOMAIN evals :
        LET ev == evals[k]
            len == PathLen(ev)
            taken == Len(ev.aqiPoints)
        IN  /\ \A j \in DOMAIN ev.aqiPoints :
                   /\ (j - 1) * Stride(len) < len
                   /\ ev.aqiPoints[j].lat = ev.route.coordinates[(j - 1) * Stride(len) + 1][1]
                   /\ ev.aqiPoints[j].lon = ev.route.coordinates[(j - 1) * Stride(len) + 1][2]
            /\ ev.calls = IF ev.done THEN taken ELSE taken + 1
            /\ len >= 1 => ev.calls >= 1
            /\ ev.done <=> taken * Stride(len) >= len

\* C20 witness: the evaluator has returned for a path of 25 coordinates,
\* with 13 samples of which the second is path index 2 and the last is
\* path index 24.
C20_Witness ==
    \E k \in DOMAIN evals :
        /\ evals[k].done
        /\ PathLen(evals[k]) = 25
        /\ Len(evals[k].aqiPoints) = 13
        /\ evals[k].aqiPoints[2].lat = evals[k].route.coordinates[3][1]
        /\ evals[k].aqiPoints[13].lat = evals[k].route.coordinates[25][1]

\* C11: when every one of two or more invocations of calculateRoutes has
\* returned, the routes and the error held are those the latest invocation
\* stored, whatever the order in which the invocations returned.
C11_LatestRequestWins ==
    (Len(calls) >= 2 /\ \A c \in DOMAIN calls : calls[c].pc = "returned") =>
        /\ routes = Val(calls[Len(calls)].outcome).routes
        /\ error = Val(calls[Len(calls)].outcome).error

\* The request has returned with both endpoints geocoded.
EndedPastGeocoding ==
    pc = "idle" /\ geoResp.start = "found" /\ geoResp.end = "found"

C22_NothingHeldWhileInFlight ==
    (calls # <<>> /\ calls[Len(calls)].pc # "returned") =>
        /\ routes = None
        /\ error = None
        /\ loading = TRUE

\* C23: the path of a route converted from a successful routing response
\* has as many points as the response's geometry, and its point k is the
\* latitude of the geometry's point k followed by its longitude.
C23_AxesSwappedInOrder ==
    \A p \in DOMAIN routeResults :
        routeResults[p].resp = "ok" =>
            LET input == ServiceGeometry(routeResults[p].len)
                output == Val(routeResults[p].value).coordinates
            IN  /\ Len(output) = Len(input)
                /\ \A k \in DOMAIN input :
                       /\ output[k][1] = input[k][2]
                       /\ output[k][2] = input[k][1]

\* C23 witness: a routing response with a geometry of two points has been
\* converted, and the second point of the path is the second point of the
\* geometry, latitude first.
C23_Witness ==
    \E p \in DOMAIN routeResults :
        /\ routeResults[p].resp = "ok"
        /\ routeResults[p].len = 2
        /\ Val(routeResults[p].value).coordinates[2] = <<22, 302>>

\* Invocation number c of calculateRoutes has been made.
Invoked(c) == c \in DOMAIN calls

\* Invocation number c has run its finally block and returned.
Returned(c) == c \in DOMAIN calls /\ calls[c].pc = "returned"

\* C24: every invocation of calculateRoutes returns in the end, also when a
\* geocoding, routing or air-quality fetch is never settled.
C24_HungCallStillCompletes ==
    \A c \in 1..MaxCalls : [](Invoked(c) => <>Returned(c))

\* C27: when every fetch is settled in the end, every invocation of
\* calculateRoutes returns, the step in which it returns sets loading to
\* false, and while no invocation is in flight after one has returned,
\* exactly one of routes and error is non-null.
C27_LoadingEndsWithPlanOrError ==
    /\ \A c \in 1..MaxCalls : [](Invoked(c) => <>Returned(c))
    /\ [][\A c \in 1..MaxCalls :
            ((Returned(c))' /\ ~Returned(c)) => loading' = FALSE]_vars
    /\ [](Returned(Len(calls)) => ((routes # None) # (error # None)))

\* C27 witness: two invocations have returned, the first with an error and
\* the second with a plan; loading is false and error is null.
C27_Witness ==
    /\ Returned(1)
    /\ Returned(2)
    /\ Val(calls[1].outcome).error # None
    /\ routes # None
    /\ error = None
    /\ loading = FALSE

\* The invocations of calculateRoutes that have not returned.
InFlight == {c \in DOMAIN calls : calls[c].pc # "returned"}

\* C28: the page has at most one invocation of calculateRoutes in flight;
\* while one is in flight loading is true and the button is disabled; and
\* every invocation was made with two non-empty texts.
C28_OneRequestAtATime ==
    /\ Cardinality(InFlight) <= 1
    /\ InFlight # {} => (loading = TRUE /\ FindRoutesDisabled)
    /\ \A c \in DOMAIN calls : calls[c].args[1] # "" /\ calls[c].args[2] # ""

\* C28 witness: a second request is in flight, started after the first had
\* returned.
C28_Witness ==
    /\ Returned(1)
    /\ InFlight = {2}

\* C25: searchLocations is never called for a keystroke that was followed
\* by another less than 300 ms later, so every call is for the value the
\* input holds, and a burst of keystrokes gives one call.
C25_BurstSearchesOnce ==
    \A i \in DOMAIN search.searched :
        /\ ~search.searched[i].superseded
        /\ search.searched[i].value = search.searched[i].query

\* The files of a selection that are at most 10MB.
WithinSize(selection) == {i \in DOMAIN selection : selection[i] <= 10 * 1024 * 1024}

\* C26: the form holds at most 5 files, each of at most 10MB; and a
\* selection whose files of at most 10MB, added to the held ones, would be
\* more than 5, leaves the list as it was.
C26_FilesWithinLimits ==
    /\ [](/\ Len(form.files) <= 5
          /\ \A i \in DOMAIN form.files : form.files[i] <= 10 * 1024 * 1024)
    /\ [][(/\ form'.op = "upload"
           /\ Len(form.files) + Cardinality(WithinSize(form'.selection)) > 5)
          => form'.files = form.files]_vars

\* C26 witness: the form holds 5 files and has just refused a selection of
\* two files, one of them over 10MB.
C26_Witness ==
    /\ Len(form.files) = 5
    /\ form.op = "upload"
    /\ form.tooMany
    /\ form.tooLarge = 1
    /\ Len(form.selection) = 2

RECURSIVE Without(_, _)
\* The list without its entries of the given id, the others in their order.
Without(list, id) ==
    IF list = <<>> THEN <<>>
    ELSE IF Head(list).id = id THEN Without(Tail(list), id)
    ELSE <<Head(list)>> \o Without(Tail(list), id)

\* C29: no two saved locations have the same id; a save of an id already in
\* the list leaves the list as it was; after a removal the list is the list
\* before it without the entries of that id, the others in order; and once
\* a save or a removal has been made, localStorage holds the list in state.
C29_SavedLocationsConsistent ==
    LET list == saved.savedLocations
        call == saved.lastCall
    IN  /\ \A i, j \in DOMAIN list : list[i].id = list[j].id => i = j
        /\ (call.op = "save" /\ \E k \in DOMAIN call.before : call.before[k].id = call.id)
               => list = call.before
        /\ call.op = "remove" =>
               /\ \A k \in DOMAIN list : list[k].id # call.id
               /\ list = Without(call.before, call.id)
        /\ call.op # "none" =>
               /\ saved.storage # None
               /\ ParseLocations(Val(saved.storage)) = list

\* C29 witness: the second of three saved locations has just been removed.
C29_Witness ==
    /\ saved.lastCall.op = "remove"
    /\ Len(saved.lastCall.before) = 3
    /\ saved.lastCall.id = saved.lastCall.before[2].id
    /\ Len(saved.savedLocations) = 2

\* C30: a request whose body is a JSON object is answered with the 400
\* error 'Latitude and longitude are required' exactly when lat or lon is
\* absent from the body; with both supplied, 0 included, it is not.
C30_RejectedExactlyWhenAbsent ==
    \A r \in DOMAIN nasa.requests :
        LET request == nasa.requests[r]
        IN  (/\ request.pc = "answered"
             /\ request.method = "POST"
             /\ request.body.json)
            => ((request.response = Answer(400, RequiredMessage))
                 <=> (request.body.lat = None \/ request.body.lon = None))

====
